---- MODULE Spec2Model ----
(***************************************************************************)
(* The input sanitization and validation layer of Yapp (package utils).    *)
(* Strings are sequences of code points; a code point is written as a      *)
(* one-element TLA+ string ("a", " ") or by its name ("U+00E9").  The      *)
(* state is one call made by the request-handling layer: the function,     *)
(* its arguments and, once the call has run, its outcome.                  *)
(***************************************************************************)
EXTENDS Integers, Sequences, FiniteSets, TLC

VARIABLES pc, round, fn, arg, fileType, statErr, res, err

vars == <<pc, round, fn, arg, fileType, statErr, res, err>>

(***************************************************************************)
(* Bounds of the input space.                                              *)
(***************************************************************************)
MaxShort == 3
MaxNameLen == 34
MaxPhoneLen == 22
MaxColorLen == 7
MaxPwLen == 14
MaxEmailLocal == 2
MaxEmailDomain == 3
MaxText == 4

(***************************************************************************)
(* Optional strings (Go pointers to string) and plain strings.             *)
(***************************************************************************)
Nil == [present |-> FALSE, s |-> <<>>]
Ptr(s) == [present |-> TRUE, s |-> s]

Rep(c, n) == [i \in 1..n |-> c]

RECURSIVE StrOver(_, _)
StrOver(alpha, n) ==
  IF n = 0 THEN {<<>>}
  ELSE LET shorter == StrOver(alpha, n - 1)
       IN shorter \cup {s \o <<c>> : s \in {t \in shorter : Len(t) = n - 1}, c \in alpha}

Padded(bodies) ==
  {p[1] \o b \o p[2] :
     p \in {<<<<>>, <<>>>>, <<<<" ">>, <<>>>>, <<<<>>, <<" ">>>>, <<<<"\t", " ">>, <<" ">>>>},
     b \in bodies}

Cycle(p, n) == [i \in 1..n |-> p[((i - 1) % Len(p)) + 1]]

OneOff(c, n, ds) ==
  {Rep(c, n)} \cup
  {[i \in 1..n |-> IF i = p THEN d ELSE c] :
     p \in {1, (n + 1) \div 2, n} \cap (1..n), d \in ds}

(***************************************************************************)
(* unicode.IsSpace, strings.TrimSpace, strings.Fields, strings.ToLower,    *)
(* strings.Contains, len, utf8.RuneCountInString.                          *)
(***************************************************************************)
IsSpace(c) == c \in {" ", "\t", "U+00A0"}

FirstNonSpace(s) ==
  IF \A i \in 1..Len(s) : IsSpace(s[i]) THEN Len(s) + 1
  ELSE CHOOSE i \in 1..Len(s) : ~IsSpace(s[i]) /\ \A j \in 1..(i - 1) : IsSpace(s[j])

LastNonSpace(s) ==
  IF \A i \in 1..Len(s) : IsSpace(s[i]) THEN 0
  ELSE CHOOSE i \in 1..Len(s) : ~IsSpace(s[i]) /\ \A j \in (i + 1)..Len(s) : IsSpace(s[j])

TrimSpace(s) == SubSeq(s, FirstNonSpace(s), LastNonSpace(s))

LowerOf(c) ==
  CASE c = "A" -> "a" [] c = "B" -> "b" [] c = "C" -> "c" [] c = "D" -> "d"
    [] c = "E" -> "e" [] c = "F" -> "f" [] c = "G" -> "g" [] c = "H" -> "h"
    [] c = "I" -> "i" [] c = "J" -> "j" [] c = "K" -> "k" [] c = "L" -> "l"
    [] c = "M" -> "m" [] c = "N" -> "n" [] c = "O" -> "o" [] c = "P" -> "p"
    [] c = "Q" -> "q" [] c = "R" -> "r" [] c = "S" -> "s" [] c = "T" -> "t"
    [] c = "U" -> "u" [] c = "V" -> "v" [] c = "W" -> "w" [] c = "X" -> "x"
    [] c = "Y" -> "y" [] c = "Z" -> "z" [] c = "U+212A" -> "k"
    [] OTHER -> c

ToLower(s) == [i \in 1..Len(s) |-> LowerOf(s[i])]

Contains(s, sub) ==
  \E i \in 0..(Len(s) - Len(sub)) : SubSeq(s, i + 1, i + Len(sub)) = sub

Utf8Len(c) ==
  CASE c \in {"U+00A0", "U+00E9", "U+00E1", "U+00ED", "U+0301"} -> 2
    [] c \in {"U+FB01", "U+FF1C", "U+212A"} -> 3
    [] c \in {"&lt;", "&gt;"} -> 4
    [] OTHER -> 1

ByteLen(s) ==
  LET Count(k) == Cardinality({i \in 1..Len(s) : Utf8Len(s[i]) = k})
  IN Count(1) + 2 * Count(2) + 3 * Count(3) + 4 * Count(4)

RuneCountInString(s) == Len(s)

Lowers == {"a", "b", "c", "d", "e", "f", "g", "h", "i", "j", "k", "l", "m",
           "n", "o", "p", "q", "r", "s", "t", "u", "v", "w", "x", "y", "z"}
Uppers == {"A", "B", "C", "D", "E", "F", "G", "H", "I", "J", "K", "L", "M",
           "N", "O", "P", "Q", "R", "S", "T", "U", "V", "W", "X", "Y", "Z"}
Digits == {"0", "1", "2", "3", "4", "5", "6", "7", "8", "9"}

(***************************************************************************)
(* regexp: ^[class]{lo,hi}$ matches a text of lo to hi code points, each   *)
(* of the class ($ without the m flag matches at the end of the text       *)
(* only).                                                                  *)
(***************************************************************************)
MatchClassRun(s, class, lo, hi) ==
  /\ lo <= Len(s)
  /\ Len(s) <= hi
  /\ \A i \in 1..Len(s) : s[i] \in class

\* usernameRegex with the lower bound of the repetition off by one.
usernameRegexMin2(s) == MatchClassRun(s, Lowers \cup Digits \cup {"_", ".", "-"}, 2, 32)

usernameRegex(s) == MatchClassRun(s, Lowers \cup Digits \cup {"_", ".", "-"}, 3, 32)

SanitizeUsername(s) ==
  LET t == ToLower(TrimSpace(s))
  IN IF ~usernameRegex(t) THEN [val |-> Ptr(<<>>), err |-> "ErrorInvalidUsername"]
     ELSE [val |-> Ptr(t), err |-> "nil"]

hallNameRegex(s) ==
  MatchClassRun(s, Lowers \cup Uppers \cup Digits \cup {"_", ".", "-", " "}, 3, 32)

SanitizeHallname(s) ==
  LET t == TrimSpace(s)
  IN IF ~hallNameRegex(t) THEN [val |-> Ptr(<<>>), err |-> "ErrorInvalidHallName"]
     ELSE [val |-> Ptr(t), err |-> "nil"]

(***************************************************************************)
(* norm.NFKC.String on the code points the inputs use: compatibility       *)
(* decomposition of each code point, then canonical composition of a       *)
(* starter with the combining acute accent that follows it.                *)
(***************************************************************************)
Decompose(c) ==
  CASE c = "U+00E9" -> <<"e", "U+0301">>
    [] c = "U+00E1" -> <<"a", "U+0301">>
    [] c = "U+00ED" -> <<"i", "U+0301">>
    [] c = "U+FB01" -> <<"f", "i">>
    [] c = "U+00A0" -> <<" ">>
    [] c = "U+FF1C" -> <<"<">>
    [] c = "U+212A" -> <<"K">>
    [] OTHER -> <<c>>

Composite(starter) ==
  CASE starter = "e" -> "U+00E9"
    [] starter = "a" -> "U+00E1"
    [] starter = "i" -> "U+00ED"
    [] OTHER -> ""

RECURSIVE DecomposeAll(_)
DecomposeAll(s) == IF s = <<>> THEN <<>> ELSE Decompose(Head(s)) \o DecomposeAll(Tail(s))

RECURSIVE ComposeAll(_, _)
ComposeAll(done, rest) ==
  IF rest = <<>> THEN done
  ELSE IF /\ Head(rest) = "U+0301"
          /\ done # <<>>
          /\ Composite(done[Len(done)]) # ""
       THEN ComposeAll(SubSeq(done, 1, Len(done) - 1) \o <<Composite(done[Len(done)])>>,
                       Tail(rest))
       ELSE ComposeAll(done \o <<Head(rest)>>, Tail(rest))

NFKC(s) == ComposeAll(<<>>, DecomposeAll(s))

RECURSIVE Fields(_, _, _)
Fields(s, word, acc) ==
  IF s = <<>> THEN (IF word = <<>> THEN acc ELSE Append(acc, word))
  ELSE IF IsSpace(Head(s))
       THEN Fields(Tail(s), <<>>, IF word = <<>> THEN acc ELSE Append(acc, word))
       ELSE Fields(Tail(s), Append(word, Head(s)), acc)

RECURSIVE Join(_, _)
Join(words, sep) ==
  IF words = <<>> THEN <<>>
  ELSE IF Len(words) = 1 THEN Head(words)
  ELSE Head(words) \o sep \o Join(Tail(words), sep)

\* SanitizeDisplayName with the length taken in bytes (len) instead of code points.
DisplayNameByBytes(s) ==
  LET t == Join(Fields(NFKC(TrimSpace(s)), <<>>, <<>>), <<" ">>)
  IN IF t = <<>> THEN [val |-> Ptr(<<>>), err |-> "ErrorInvalidDisplayName"]
     ELSE IF ByteLen(t) < 3 \/ ByteLen(t) > 32
          THEN [val |-> Ptr(<<>>), err |-> "ErrorInvalidDisplayName"]
     ELSE [val |-> Ptr(t), err |-> "nil"]

SanitizeDisplayName(s) ==
  LET t == Join(Fields(NFKC(TrimSpace(s)), <<>>, <<>>), <<" ">>)
  IN IF t = <<>> THEN [val |-> Ptr(<<>>), err |-> "ErrorInvalidDisplayName"]
     ELSE IF RuneCountInString(t) < 3 \/ RuneCountInString(t) > 32
          THEN [val |-> Ptr(<<>>), err |-> "ErrorInvalidDisplayName"]
     ELSE [val |-> Ptr(t), err |-> "nil"]

(***************************************************************************)
(* emailRegex: local part, "@", then dot-separated labels of 1 to 63       *)
(* letters, digits and inner hyphens.                                      *)
(***************************************************************************)
AlNum == Lowers \cup Uppers \cup Digits

EmailLocalClass ==
  AlNum \cup {".", "!", "#", "$", "%", "&", "'", "*", "+", "/", "=", "?", "^", "_",
              "U+0060", "{", "|", "}", "~", "-"}

RECURSIVE Split(_, _, _, _)
Split(s, sep, part, acc) ==
  IF s = <<>> THEN Append(acc, part)
  ELSE IF Head(s) = sep THEN Split(Tail(s), sep, <<>>, Append(acc, part))
  ELSE Split(Tail(s), sep, Append(part, Head(s)), acc)

EmailLabel(l) ==
  /\ l # <<>>
  /\ Head(l) \in AlNum
  /\ \/ Len(l) = 1
     \/ /\ l[Len(l)] \in AlNum
        /\ MatchClassRun(SubSeq(l, 2, Len(l) - 1), AlNum \cup {"-"}, 0, 61)

emailRegex(s) ==
  \E k \in 1..Len(s) :
    /\ s[k] = "@"
    /\ MatchClassRun(SubSeq(s, 1, k - 1), EmailLocalClass, 1, Len(s))
    /\ LET labels == Split(SubSeq(s, k + 1, Len(s)), ".", <<>>, <<>>)
       IN \A i \in 1..Len(labels) : EmailLabel(labels[i])

\* SanitizeEmail returning the normalized text alongside the error.
EmailPartialOnError(s) ==
  LET t == ToLower(TrimSpace(s))
  IN IF ByteLen(t) < 6 \/ ByteLen(t) > 254 \/ ~Contains(t, <<"@">>) \/ ~emailRegex(t)
     THEN [val |-> Ptr(t), err |-> "ErrorInvalidEmail"]
     ELSE [val |-> Ptr(t), err |-> "nil"]

SanitizeEmail(s) ==
  LET t == ToLower(TrimSpace(s))
  IN IF ByteLen(t) < 6 \/ ByteLen(t) > 254 \/ ~Contains(t, <<"@">>) \/ ~emailRegex(t)
     THEN [val |-> Ptr(<<>>), err |-> "ErrorInvalidEmail"]
     ELSE [val |-> Ptr(t), err |-> "nil"]

RECURSIVE keepPlusDigits(_)
keepPlusDigits(s) ==
  IF s = <<>> THEN <<>>
  ELSE IF Head(s) = "+" \/ Head(s) \in Digits
       THEN <<Head(s)>> \o keepPlusDigits(Tail(s))
       ELSE keepPlusDigits(Tail(s))

SanitizePhoneE164(ptr) ==
  IF ~ptr.present THEN [val |-> Nil, err |-> "nil"]
  ELSE LET s == TrimSpace(ptr.s)
       IN IF s = <<>> THEN [val |-> Nil, err |-> "nil"]
          ELSE LET d == keepPlusDigits(s)
               IN IF ByteLen(d) < 7 \/ ByteLen(d) > 20
                  THEN [val |-> Nil, err |-> "ErrorInvalidPhoneNumber"]
                  ELSE [val |-> Ptr(d), err |-> "nil"]
(***************************************************************************)
(* passwordvalidator.Validate: the entropy is length * log2(base), in      *)
(* thousandths of a bit.  The base adds the size of every character class  *)
(* the password uses; the length counts at most two of a run of one        *)
(* repeated character.  (The library also shortens keyboard and alphabet   *)
(* sequences of three or more; the inputs hold at most one letter of each  *)
(* case and one digit, so no such sequence occurs.)                        *)
(***************************************************************************)
minEntropyBits == 60

replaceChars == {"!", "@", "$", "&", "*"}
sepChars == {"_", "-", ".", ",", " "}
otherSpecialChars ==
  {"\"", "#", "%", "'", "(", ")", "+", "/", ":", ";", "<", "=", ">", "?", "[", "\\",
   "]", "^", "{", "|", "}", "~"}

CharsOf(s) == {s[i] : i \in 1..Len(s)}

getBase(password) ==
  LET chars == CharsOf(password)
      classes == <<Lowers, Uppers, Digits, replaceChars, sepChars, otherSpecialChars>>
      Add(k) == IF chars \cap classes[k] # {} THEN Cardinality(classes[k]) ELSE 0
  IN Add(1) + Add(2) + Add(3) + Add(4) + Add(5) + Add(6)
     + Cardinality(chars \ UNION {classes[k] : k \in 1..6})

RECURSIVE removeMoreThanTwoRepeatingChars(_)
removeMoreThanTwoRepeatingChars(s) ==
  IF Len(s) < 3 THEN s
  ELSE LET init == removeMoreThanTwoRepeatingChars(SubSeq(s, 1, Len(s) - 1))
           r == s[Len(s)]
       IN IF Len(init) >= 2 /\ init[Len(init)] = r /\ init[Len(init) - 1] = r
          THEN init
          ELSE Append(init, r)

getLength(password) == Len(removeMoreThanTwoRepeatingChars(password))

Log2Milli ==
  <<0, 1000, 1584, 2000, 2321, 2584, 2807, 3000, 3169, 3321, 3459, 3584, 3700, 3807,
    3906, 4000, 4087, 4169, 4247, 4321, 4392, 4459, 4523, 4584, 4643, 4700, 4754, 4807,
    4857, 4906, 4954, 5000, 5044, 5087, 5129, 5169, 5209, 5247, 5285, 5321, 5357, 5392,
    5426, 5459, 5491, 5523, 5554, 5584, 5614, 5643, 5672, 5700, 5727, 5754, 5781, 5807,
    5832, 5857, 5882, 5906, 5930, 5954, 5977, 6000, 6022, 6044, 6066, 6087, 6108, 6129,
    6149, 6169, 6189, 6209, 6228, 6247, 6266, 6285, 6303, 6321>>

getEntropyMilli(password) ==
  IF getBase(password) = 0 THEN 0
  ELSE getLength(password) * Log2Milli[getBase(password)]

Validate(password, minEntropy) == getEntropyMilli(password) >= minEntropy * 1000

\* SanitizePasswordPolicy with the two rules in the other order.
PasswordEntropyFirst(raw) ==
  IF ~Validate(raw, minEntropyBits)
  THEN [val |-> Ptr(<<>>), err |-> "ErrorInvalidPassword"]
  ELSE IF TrimSpace(raw) # raw
       THEN [val |-> Ptr(<<>>), err |-> "ErrorPasswordWhiteSpace"]
  ELSE [val |-> Ptr(raw), err |-> "nil"]

SanitizePasswordPolicy(raw) ==
  IF TrimSpace(raw) # raw THEN [val |-> Ptr(<<>>), err |-> "ErrorPasswordWhiteSpace"]
  ELSE IF ~Validate(raw, minEntropyBits)
       THEN [val |-> Ptr(<<>>), err |-> "ErrorInvalidPassword"]
  ELSE [val |-> Ptr(raw), err |-> "nil"]

(***************************************************************************)
(* hexRegex: "#" and one or two groups of three hexadecimal digits.        *)
(***************************************************************************)
HexDigits == Digits \cup {"a", "b", "c", "d", "e", "f", "A", "B", "C", "D", "E", "F"}

hexRegex(s) ==
  /\ s # <<>>
  /\ Head(s) = "#"
  /\ \E groups \in 1..2 : MatchClassRun(Tail(s), HexDigits, 3 * groups, 3 * groups)

\* SanitizeColorFormat without the pass-through of the empty string.
ColorRejectsEmpty(colorHex) ==
  IF ~colorHex.present THEN [val |-> Nil, err |-> "nil"]
  ELSE LET s == TrimSpace(colorHex.s)
       IN IF ~hexRegex(s) THEN [val |-> Nil, err |-> "ErrorInvalidBannerColor"]
          ELSE [val |-> Ptr(s), err |-> "nil"]

SanitizeColorFormat(colorHex) ==
  IF ~colorHex.present THEN [val |-> Nil, err |-> "nil"]
  ELSE LET s == TrimSpace(colorHex.s)
       IN IF s = <<>> THEN [val |-> Nil, err |-> "nil"]
          ELSE IF ~hexRegex(s) THEN [val |-> Nil, err |-> "ErrorInvalidBannerColor"]
          ELSE [val |-> Ptr(s), err |-> "nil"]

(***************************************************************************)
(* bluemonday.UGCPolicy().Sanitize.  The tokenizer opens a tag at "<"       *)
(* followed by a letter and closes it at the next ">"; input that ends      *)
(* inside a tag ends the token stream.  The policy allows no element whose *)
(* name starts with "x", so such a tag is dropped and the text around it   *)
(* kept.  Text is written HTML-escaped; "&lt;" and "&gt;" are the escaped  *)
(* forms, each held as one element of the string.                          *)
(***************************************************************************)
EscapeString(c) ==
  CASE c = "<" -> "&lt;"
    [] c = ">" -> "&gt;"
    [] OTHER -> c

IndexOf(s, c) ==
  IF \E i \in 1..Len(s) : s[i] = c
  THEN CHOOSE i \in 1..Len(s) : s[i] = c /\ \A j \in 1..(i - 1) : s[j] # c
  ELSE 0

RECURSIVE sanitizeTokens(_, _)
sanitizeTokens(s, buff) ==
  IF s = <<>> THEN buff
  ELSE IF Head(s) = "<" /\ Len(s) >= 2 /\ s[2] \in Lowers \cup Uppers
       THEN IF IndexOf(s, ">") = 0 THEN buff
            ELSE sanitizeTokens(SubSeq(s, IndexOf(s, ">") + 1, Len(s)), buff)
       ELSE sanitizeTokens(Tail(s), Append(buff, EscapeString(Head(s))))

Sanitize(s) == IF TrimSpace(s) = <<>> THEN s ELSE sanitizeTokens(s, <<>>)

SanitizeText(text) ==
  IF ~text.present THEN [val |-> Nil, err |-> "nil"]
  ELSE LET s == TrimSpace(text.s)
       IN IF s = <<>> THEN [val |-> Nil, err |-> "nil"]
          ELSE [val |-> Ptr(Sanitize(s)), err |-> "nil"]

SanitizeMessageContent(content) ==
  IF ~content.present THEN [val |-> Nil, err |-> "panic"]
  ELSE [val |-> Ptr(Sanitize(NFKC(TrimSpace(content.s)))), err |-> "nil"]

(***************************************************************************)
(* os.Stat's error: "nil" when an entry exists at the path, "ENOENT" when  *)
(* none does, "EIO" when the check itself fails.  The empty path names no  *)
(* entry; "." and ".." always name one.                                    *)
(***************************************************************************)
IsNotExist(e) == e = "ENOENT"

StatErrors(path) ==
  IF path = <<>> THEN {"ENOENT"}
  ELSE IF path \in {<<".">>, <<".", ".">>} THEN {"nil", "EIO"}
  ELSE {"nil", "ENOENT", "EIO"}

ValidateFileName(fileName, statError) ==
  LET s == TrimSpace(fileName)
  IN IF statError = "nil" /\ IsNotExist(statError) THEN [val |-> Ptr(s), err |-> "nil"]
     ELSE [val |-> Ptr(<<>>), err |-> "ErrorInvalidFileName"]

blockedExt ==
  {<<".", "e", "x", "e">>, <<".", "b", "a", "t">>, <<".", "c", "m", "d">>,
   <<".", "m", "s", "i", "x">>, <<".", "s", "c", "r">>, <<".", "p", "i", "f">>,
   <<".", "d", "l", "l">>, <<".", "j", "s", "e">>, <<".", "v", "b", "s">>,
   <<".", "v", "b", "e">>, <<".", "w", "s", "f">>, <<".", "w", "s", "h">>,
   <<".", "p", "s", "1">>, <<".", "p", "s", "m", "1">>, <<".", "r", "e", "g">>,
   <<".", "j", "a", "r">>, <<".", "d", "m", "g">>, <<".", "i", "s", "o">>,
   <<".", "p", "k", "g">>, <<".", "s", "h">>, <<".", "v", "i", "r", "u", "s">>}

RECURSIVE Ext(_)
Ext(path) ==
  IF path = <<>> \/ path[Len(path)] = "/" THEN <<>>
  ELSE IF path[Len(path)] = "." THEN <<".">>
  ELSE LET e == Ext(SubSeq(path, 1, Len(path) - 1))
       IN IF e = <<>> THEN <<>> ELSE Append(e, path[Len(path)])

\* ValidateFileType with the cross-check before the deny-list.
FileTypeCrossCheckFirst(ft, url) ==
  LET ext == ToLower(Ext(url))
  IN IF ft.present /\ ~Contains(ToLower(ft.s), ext)
     THEN [val |-> Nil, err |-> "ErrorFileUnmatch"]
     ELSE IF ext \in blockedExt THEN [val |-> Nil, err |-> "ErrorBadFileType"]
     ELSE [val |-> Ptr(ext), err |-> "nil"]

ValidateFileType(ft, url) ==
  LET ext == ToLower(Ext(url))
  IN IF ext \in blockedExt THEN [val |-> Nil, err |-> "ErrorBadFileType"]
     ELSE IF ft.present /\ ~Contains(ToLower(ft.s), ext)
          THEN [val |-> Nil, err |-> "ErrorFileUnmatch"]
     ELSE [val |-> Ptr(ext), err |-> "nil"]
(***************************************************************************)
(* The calls the request-handling layer makes.                             *)
(***************************************************************************)
Str(s) == Ptr(s)

Request(f, a, ft) == [fn |-> f, arg |-> a, fileType |-> ft]

UsernameInputs ==
  Padded(StrOver({"a", "B", "_", " ", "!"}, MaxShort)
         \cup UNION {OneOff(c, n, {"!", " ", "7", "U+212A"}) :
                       c \in {"a", "Z"}, n \in 0..MaxNameLen})

HallnameInputs ==
  Padded(StrOver({"a", "B", ".", " ", "!"}, MaxShort)
         \cup UNION {OneOff(c, n, {"!", " ", "\t"}) : c \in {"a", "Z"}, n \in 0..MaxNameLen})

DisplayNameInputs ==
  Padded(StrOver({"a", " ", "U+0301", "U+00E9", "U+FB01", "U+00A0"}, MaxShort)
         \cup UNION {OneOff(c, n, {" ", "U+0301", "U+FB01"}) :
                       c \in {"a", "U+00E9", "U+FB01"}, n \in 0..MaxNameLen})
  \cup {<<" ", " ", "a", " ", " ", "b", " ", " ">>}

EmailInputs ==
  {p \o l \o a \o d \o p :
     p \in {<<>>, <<" ">>},
     l \in StrOver({"a", "B"}, MaxEmailLocal),
     a \in {<<>>, <<"@">>, <<"@", "@">>},
     d \in StrOver({"a", "-", "."}, MaxEmailDomain)}
  \cup {Rep("a", n) \o <<"@", "a", ".", "a", "a">> : n \in 247..251}
  \cup {<<"a", "a", "@">> \o Rep("b", n) \o <<".", "c">> : n \in 62..65}

PhoneInputs ==
  {Nil} \cup
  {Ptr(s) : s \in Padded(StrOver({"+", "1", "a", " "}, MaxShort)
                         \cup UNION {OneOff("1", n, {"+", "-", " "}) : n \in 0..MaxPhoneLen})}

PasswordInputs ==
  Padded(StrOver({"a", "B", "1", "!", " "}, MaxShort)
         \cup {Cycle(p, n) : p \in {<<"a">>, <<"a", "B">>, <<"a", "1", "B">>,
                                    <<"a", "B", "1", "!">>, <<"a", " ", "B", "!">>},
                             n \in 0..MaxPwLen})

ColorInputs ==
  {Nil} \cup
  {Ptr(s) : s \in Padded(StrOver({"#", "a", "F", "g"}, MaxShort)
                         \cup UNION {{<<"#">> \o b : b \in OneOff(c, n, {"g", "#", " "})} :
                                       c \in {"a", "F", "0"}, n \in 0..MaxColorLen})}

TextInputs == {Nil} \cup {Ptr(s) : s \in StrOver({"x", " ", "<", ">", "&lt;"}, MaxText)}

MessageInputs ==
  {Nil} \cup {Ptr(s) : s \in StrOver({"x", " ", "<", ">", "U+FF1C"}, MaxText)}

FileNameInputs == Padded(StrOver({"a", "b", "."}, MaxShort))

UpperOf(c) == IF c \in Lowers THEN CHOOSE u \in Uppers : LowerOf(u) = c ELSE c

ToUpper(s) == [i \in 1..Len(s) |-> UpperOf(s[i])]

Capitalize(s) == [i \in 1..Len(s) |-> IF i = 2 THEN UpperOf(s[i]) ELSE s[i]]

Http == <<"h", "t", "t", "p", ":", "/", "/">>
ImageSlash == <<"i", "m", "a", "g", "e", "/">>
ImagePng == <<"i", "m", "a", "g", "e", "/", "p", "n", "g">>
ImageJpeg == <<"i", "m", "a", "g", "e", "/", "j", "p", "e", "g">>
FileJpg == Http \o <<"x", "/", "f", "i", "l", "e", ".", "j", "p", "g">>
FileJpeg == Http \o <<"x", "/", "f", "i", "l", "e", ".", "j", "p", "e", "g">>
FileExe == Http \o <<"x", "/", "f", "i", "l", "e", ".", "e", "x", "e">>

UrlExts ==
  UNION {{e, ToUpper(e), Capitalize(e)} :
           e \in blockedExt \cup {<<>>, <<".">>, <<".", "j", "p", "g">>,
                                  <<".", "j", "p", "e", "g">>, <<".", "p", "n", "g">>}}

Urls ==
  {b \o e \o q :
     b \in {Http \o <<"x", "/", "f", "i", "l", "e">>, <<"f">>, Http \o <<"x", ".", "y", "/", "f">>},
     e \in UrlExts,
     q \in {<<>>, <<"?", "v">>}}

FileTypeRequests ==
  {Request("ValidateFileType", Str(u), ft) :
     u \in Urls,
     ft \in {Nil, Ptr(<<>>), Ptr(ImagePng), Ptr(ImageJpeg), Ptr(ToUpper(ImageJpeg))}}
  \cup UNION {{Request("ValidateFileType", Str(u), Ptr(pre \o body)) :
                  pre \in {<<>>, <<"x">>, ImageSlash},
                  body \in {ToLower(Ext(u)), Ext(u),
                            IF Ext(u) = <<>> THEN <<>> ELSE Tail(ToLower(Ext(u)))}} :
                u \in Urls}

Requests ==
  {Request("SanitizeUsername", Str(s), Nil) : s \in UsernameInputs}
  \cup {Request("SanitizeHallname", Str(s), Nil) : s \in HallnameInputs}
  \cup {Request("SanitizeDisplayName", Str(s), Nil) : s \in DisplayNameInputs}
  \cup {Request("SanitizeEmail", Str(s), Nil) : s \in EmailInputs}
  \cup {Request("SanitizePhoneE164", a, Nil) : a \in PhoneInputs}
  \cup {Request("SanitizePasswordPolicy", Str(s), Nil) : s \in PasswordInputs}
  \cup {Request("SanitizeColorFormat", a, Nil) : a \in ColorInputs}
  \cup {Request("SanitizeText", a, Nil) : a \in TextInputs}
  \cup {Request("SanitizeMessageContent", a, Nil) : a \in MessageInputs}
  \cup {Request("ValidateFileName", Str(s), Nil) : s \in FileNameInputs}
  \cup FileTypeRequests

(***************************************************************************)
(* The state machine: a call is pending (pc = "call"), then it has         *)
(* returned or panicked.  A returned value may be fed back once into the   *)
(* function that produced it.                                              *)
(***************************************************************************)
Init ==
  /\ pc = "call"
  /\ round = 1
  /\ \E r \in Requests : fn = r.fn /\ arg = r.arg /\ fileType = r.fileType
  /\ statErr = "none"
  /\ res = Nil
  /\ err = "nil"

Return(r) ==
  /\ res' = r.val
  /\ err' = r.err
  /\ pc' = IF r.err = "panic" THEN "panicked" ELSE "returned"
  /\ UNCHANGED <<round, fn, arg, fileType>>

Pending(f) == pc = "call" /\ fn = f

CallSanitizeUsername ==
  Pending("SanitizeUsername") /\ Return(SanitizeUsername(arg.s)) /\ UNCHANGED statErr

CallSanitizeHallname ==
  Pending("SanitizeHallname") /\ Return(SanitizeHallname(arg.s)) /\ UNCHANGED statErr

CallSanitizeDisplayName ==
  Pending("SanitizeDisplayName") /\ Return(SanitizeDisplayName(arg.s)) /\ UNCHANGED statErr

CallSanitizeEmail ==
  Pending("SanitizeEmail") /\ Return(SanitizeEmail(arg.s)) /\ UNCHANGED statErr

CallSanitizePhoneE164 ==
  Pending("SanitizePhoneE164") /\ Return(SanitizePhoneE164(arg)) /\ UNCHANGED statErr

CallSanitizePasswordPolicy ==
  Pending("SanitizePasswordPolicy") /\ Return(SanitizePasswordPolicy(arg.s))
  /\ UNCHANGED statErr

CallSanitizeColorFormat ==
  Pending("SanitizeColorFormat") /\ Return(SanitizeColorFormat(arg)) /\ UNCHANGED statErr

CallSanitizeText ==
  Pending("SanitizeText") /\ Return(SanitizeText(arg)) /\ UNCHANGED statErr

CallSanitizeMessageContent ==
  Pending("SanitizeMessageContent") /\ Return(SanitizeMessageContent(arg))
  /\ UNCHANGED statErr

CallValidateFileName ==
  /\ Pending("ValidateFileName")
  /\ \E e \in StatErrors(TrimSpace(arg.s)) :
       /\ statErr' = e
       /\ Return(ValidateFileName(arg.s, e))

CallValidateFileType ==
  Pending("ValidateFileType") /\ Return(ValidateFileType(fileType, arg.s))
  /\ UNCHANGED statErr

FeedBack ==
  /\ pc = "returned"
  /\ err = "nil"
  /\ round = 1
  /\ round' = 2
  /\ pc' = "call"
  /\ arg' = res
  /\ res' = Nil
  /\ statErr' = "none"
  /\ UNCHANGED <<fn, fileType, err>>

Next ==
  \/ CallSanitizeUsername
  \/ CallSanitizeHallname
  \/ CallSanitizeDisplayName
  \/ CallSanitizeEmail
  \/ CallSanitizePhoneE164
  \/ CallSanitizePasswordPolicy
  \/ CallSanitizeColorFormat
  \/ CallSanitizeText
  \/ CallSanitizeMessageContent
  \/ CallValidateFileName
  \/ CallValidateFileType
  \/ FeedBack

Spec == Init /\ [][Next]_vars

(***************************************************************************)
(* Properties.                                                             *)
(***************************************************************************)
Returned(f) == pc = "returned" /\ fn = f

ErrorsOf(f) ==
  CASE f = "SanitizeUsername" -> {"ErrorInvalidUsername"}
    [] f = "SanitizeHallname" -> {"ErrorInvalidHallName"}
    [] f = "SanitizeDisplayName" -> {"ErrorInvalidDisplayName"}
    [] f = "SanitizeEmail" -> {"ErrorInvalidEmail"}
    [] f = "SanitizePhoneE164" -> {"ErrorInvalidPhoneNumber"}
    [] f = "SanitizePasswordPolicy" -> {"ErrorPasswordWhiteSpace", "ErrorInvalidPassword"}
    [] f = "SanitizeColorFormat" -> {"ErrorInvalidBannerColor"}
    [] f = "ValidateFileName" -> {"ErrorInvalidFileName"}
    [] f = "ValidateFileType" -> {"ErrorBadFileType", "ErrorFileUnmatch"}
    [] OTHER -> {}

\* C1: for SanitizeUsername, SanitizeHallname, SanitizeDisplayName, SanitizeEmail,
\* SanitizePhoneE164, SanitizeColorFormat, SanitizeText, SanitizeMessageContent and
\* ValidateFileType, a value returned without error and fed back into the same
\* function comes back without error and unchanged.
C1_StableUnderReapplication ==
  (/\ round = 2
   /\ pc # "call"
   /\ fn \in {"SanitizeUsername", "SanitizeHallname", "SanitizeDisplayName",
              "SanitizeEmail", "SanitizePhoneE164", "SanitizeColorFormat",
              "SanitizeText", "SanitizeMessageContent", "ValidateFileType"})
  => (pc = "returned" /\ err = "nil" /\ res = arg)

\* C2: ValidateFileName returns the trimmed name without error when the existence
\* check reports that nothing exists at the path, and ErrorInvalidFileName only
\* when an entry exists or the check fails for another reason.
C2_AcceptsNameOfNoEntry ==
  (Returned("ValidateFileName") /\ TrimSpace(arg.s) # <<>>)
  => IF statErr = "ENOENT"
     THEN err = "nil" /\ res = Str(TrimSpace(arg.s))
     ELSE err = "ErrorInvalidFileName"

\* C3: with an extension that is not blocked and a declared content type, the call
\* returns the extension when the declared type names it and ErrorFileUnmatch when
\* it does not; "image/png" with file.jpg is a mismatch, "image/jpeg" with
\* file.jpeg returns ".jpeg".  (Stated for URLs that have an extension: a dot and
\* one or more letters or digits.)
NamesExtension(declared, ext) == Contains(ToLower(declared), Tail(ext))

C3_CrossCheck ==
  (/\ Returned("ValidateFileType")
   /\ fileType.present
   /\ Len(Ext(arg.s)) >= 2
   /\ \A i \in 2..Len(Ext(arg.s)) : Ext(arg.s)[i] \in AlNum
   /\ ToLower(Ext(arg.s)) \notin blockedExt)
  => /\ IF NamesExtension(fileType.s, ToLower(Ext(arg.s)))
        THEN err = "nil" /\ res = Ptr(ToLower(Ext(arg.s)))
        ELSE err = "ErrorFileUnmatch"
     /\ (fileType.s = ImagePng /\ arg.s = FileJpg) => err = "ErrorFileUnmatch"
     /\ (fileType.s = ImageJpeg /\ arg.s = FileJpeg)
          => (err = "nil" /\ res = Ptr(<<".", "j", "p", "e", "g">>))

\* C4: a URL that ends, in any letter case, in one of the 21 blocked extensions is
\* rejected with ErrorBadFileType and no extension, whatever the declared content
\* type; and no call that succeeds returns a blocked extension.
EndsInBlockedExt(url) ==
  \E e \in blockedExt :
    /\ Len(e) <= Len(url)
    /\ ToLower(SubSeq(url, Len(url) - Len(e) + 1, Len(url))) = e

C5_SanitizersNeverFail ==
  (pc # "call" /\ fn \in {"SanitizeText", "SanitizeMessageContent"})
  => /\ pc = "returned"
     /\ err = "nil"
     /\ fn = "SanitizeMessageContent" => res.present

\* C6: a password with leading or trailing whitespace is rejected with
\* ErrorPasswordWhiteSpace however strong it is, ErrorInvalidPassword is returned
\* only for a password without boundary whitespace, and an accepted password is
\* returned exactly as given.
HasBoundarySpace(s) == s # <<>> /\ (IsSpace(s[1]) \/ IsSpace(s[Len(s)]))

C6_WhitespaceBeforeEntropy ==
  Returned("SanitizePasswordPolicy")
  => /\ HasBoundarySpace(arg.s) => err = "ErrorPasswordWhiteSpace"
     /\ err = "ErrorInvalidPassword" => ~HasBoundarySpace(arg.s)
     /\ err = "nil" => res = arg

C6_Witness ==
  /\ Returned("SanitizePasswordPolicy")
  /\ HasBoundarySpace(arg.s)
  /\ Validate(arg.s, minEntropyBits)
  /\ err = "ErrorPasswordWhiteSpace"

\* C7: SanitizeUsername accepts exactly the inputs whose trimmed, lower-cased form
\* has 3 to 32 characters of a-z, 0-9, "_", ".", "-", and returns that form; an
\* accepted name upper-cased and wrapped in spaces comes back lower-cased.
UsernameForm(t) ==
  /\ Len(t) >= 3
  /\ Len(t) <= 32
  /\ \A i \in 1..Len(t) : t[i] \in Lowers \cup Digits \cup {"_", ".", "-"}

C7_UsernameAcceptance ==
  Returned("SanitizeUsername")
  => /\ IF UsernameForm(ToLower(TrimSpace(arg.s)))
        THEN err = "nil" /\ res = Str(ToLower(TrimSpace(arg.s)))
        ELSE err = "ErrorInvalidUsername" /\ res = Str(<<>>)
     /\ LET n == Len(arg.s)
            inner == SubSeq(arg.s, 2, n - 1)
        IN (n >= 2 /\ arg.s[1] = " " /\ arg.s[n] = " " /\ UsernameForm(ToLower(inner)))
           => (err = "nil" /\ res = Str(ToLower(inner)))

C7_Witness ==
  /\ Returned("SanitizeUsername")
  /\ err = "nil"
  /\ Len(res.s) = 3
  /\ Len(arg.s) = 5
  /\ arg.s # ToLower(arg.s)

\* C8: SanitizeDisplayName succeeds exactly when the trimmed, normalized,
\* whitespace-collapsed name has 3 to 32 code points, whatever its byte length: 32
\* two-byte characters succeed, 33 fail, and "  a  b  " gives "a b".
C8_CodePointLength ==
  Returned("SanitizeDisplayName")
  => LET t == Join(Fields(NFKC(TrimSpace(arg.s)), <<>>, <<>>), <<" ">>)
     IN /\ err = "nil" <=> (Len(t) >= 3 /\ Len(t) <= 32)
        /\ err = "nil" => res = Str(t)
        /\ err # "nil" => err = "ErrorInvalidDisplayName"
        /\ arg.s = Rep("U+00E9", 32) => (err = "nil" /\ ByteLen(res.s) = 64)
        /\ arg.s = Rep("U+00E9", 33) => err = "ErrorInvalidDisplayName"
        /\ arg.s = <<" ", " ", "a", " ", " ", "b", " ", " ">>
             => (err = "nil" /\ res = Str(<<"a", " ", "b">>))

C8_Witness ==
  /\ Returned("SanitizeDisplayName")
  /\ arg.s = Rep("U+00E9", 32)
  /\ ByteLen(res.s) = 64
  /\ err = "nil"

\* C9: SanitizePhoneE164, SanitizeColorFormat and SanitizeText return (absent, no
\* error) for an absent and for an empty input; a present value or an error comes
\* only from a present, non-empty input.
C9_AbsentPassesThrough ==
  (pc = "returned" /\ fn \in {"SanitizePhoneE164", "SanitizeColorFormat", "SanitizeText"})
  => /\ (~arg.present \/ arg.s = <<>>) => (res = Nil /\ err = "nil")
     /\ (res.present \/ err # "nil") => (arg.present /\ arg.s # <<>>)

C9_Witness ==
  /\ Returned("SanitizeColorFormat")
  /\ arg = Ptr(<<>>)
  /\ res = Nil
  /\ err = "nil"

\* C10: every error-returning validator returns either a value without error or
\* the empty string / absent with one error kind of its own; never a non-empty or
\* present value together with an error.
StringValidators ==
  {"SanitizeUsername", "SanitizeHallname", "SanitizeDisplayName", "SanitizeEmail",
   "SanitizePasswordPolicy", "ValidateFileName"}

PointerValidators == {"SanitizePhoneE164", "SanitizeColorFormat", "ValidateFileType"}

C10_NoPartialResult ==
  (pc = "returned" /\ fn \in StringValidators \cup PointerValidators)
  => \/ err = "nil"
     \/ /\ err \in ErrorsOf(fn)
        /\ res.s = <<>>
        /\ fn \in PointerValidators => ~res.present

C10_Witness ==
  /\ Returned("SanitizeEmail")
  /\ err = "ErrorInvalidEmail"
  /\ TrimSpace(arg.s) # <<>>
  /\ res = Str(<<>>)
====
